---------------------------- MODULE Spec2Model ----------------------------
(***************************************************************************)
(* Hogwarts house points (hybrid local + Supabase): a model of the client  *)
(* in src/hogwarts_hauspunkte_react_app.jsx. Each client is one mounted    *)
(* React component with its localStorage record; the clients share one     *)
(* remote table `games` and its change feed.                               *)
(*                                                                         *)
(* A string that the code cuts and filters (a room code) is a sequence of  *)
(* characters. A history entry keeps the two fields the modelled code      *)
(* depends on (house, delta); its id, reason and creation time are opaque  *)
(* to every function modelled here.                                        *)
(***************************************************************************)
EXTENDS Integers, Sequences, FiniteSets, TLC

\* ------------------------------------------------------------------ bounds
\* Clock ticks a run may take (a tick is half a debounce interval).
MaxTicks == 3
\* Local mutations (applyDelta / confirmed resetAll) one client may make.
MaxMut == 2
\* Page reloads per client.
MaxReload == 1
\* Length of the short texts typed into the room field.
MaxLen == 2
\* Changes of room or backend per page load, counted in a build with Supabase.
MaxBind == 2
\* How far past a limit (ROOM_MAX, MAX_HISTORY) the long inputs go.
MaxOver == 1

\* ------------------------------------------------------- program constants
MAX_HISTORY == 200
ROOM_MAX == 64
DEBOUNCE_MS == 400

HOUSES == {"Gryffindor", "Slytherin", "Ravenclaw", "Hufflepuff"}
Clients == {"A", "B"}

\* One tick of the model's clock, in milliseconds.
TickMs == DEBOUNCE_MS \div 2

\* JavaScript values that are not integers, kept apart from every score the
\* bounds can reach: NaN (undefined + n) and null (JSON's image of NaN).
JsNaN == 0 - 1000001
JsNull == 0 - 1000002

Min(a, b) == IF a <= b THEN a ELSE b
Take(s, n) == SubSeq(s, 1, Min(Len(s), n))

\* ------------------------------------------------------------------- rooms
LowerLetters ==
  {"a","b","c","d","e","f","g","h","i","j","k","l","m",
   "n","o","p","q","r","s","t","u","v","w","x","y","z"}
Digits == {"0","1","2","3","4","5","6","7","8","9"}
UpperPairs ==
  {<<"A","a">>, <<"K","k">>, <<"L","l">>, <<"S","s">>, <<"Z","z">>}
UpperLetters == {p[1] : p \in UpperPairs}

\* String.prototype.toLowerCase on one character. "I-dot" is U+0130, whose
\* lower case is two code units: i and the combining dot above.
lowerChar(ch) ==
  IF ch \in UpperLetters THEN <<(CHOOSE p \in UpperPairs : p[1] = ch)[2]>>
  ELSE IF ch = "I-dot" THEN <<"i", "comb-dot">>
  ELSE <<ch>>

RECURSIVE toLowerCase(_)
toLowerCase(s) ==
  IF s = <<>> THEN <<>> ELSE lowerChar(Head(s)) \o toLowerCase(Tail(s))

\* The characters /[^a-z0-9_-]/gi leaves in place.
roomCharOk(ch) == ch \in LowerLetters \cup UpperLetters \cup Digits \cup {"_", "-"}

Demo == <<"d", "e", "m", "o">>

sanitizeRoomDropsDefault(s) ==
  Take(SelectSeq(toLowerCase(s), roomCharOk), ROOM_MAX)

sanitizeRoomNoCut(s) ==
  LET t == SelectSeq(toLowerCase(s), roomCharOk) IN IF t = <<>> THEN Demo ELSE t

sanitizeRoom(s) ==
  LET t == Take(SelectSeq(toLowerCase(s), roomCharOk), ROOM_MAX)
  IN  IF t = <<>> THEN Demo ELSE t

\* getRoomFromURL on a page address whose room parameter is r (<<>>: none).
getRoomFromURL(r) == IF r # <<>> THEN sanitizeRoom(r) ELSE <<>>

\* ------------------------------------------------------------- JS numbers
JsUndefined == 0 - 1000003

\* a + d in JavaScript, d an integer: undefined + d and NaN + d are NaN,
\* null + d is d.
jsAdd(a, d) ==
  IF a = JsNaN \/ a = JsUndefined THEN JsNaN
  ELSE IF a = JsNull THEN d
  ELSE a + d

\* obj[key] on a points object.
pointOf(p, h) == IF h \in DOMAIN p THEN p[h] ELSE JsUndefined

\* JSON.stringify of a number: NaN is written as null.
jsonNum(v) == IF v = JsNaN THEN JsNull ELSE v

ZeroPoints == [h \in HOUSES |-> 0]

\* ------------------------------------------------------ local persistence
\* The value stored under LS_KEY: no item, text JSON.parse rejects, the text
\* "null", or the JSON text of an object (data: its fields, each may miss).
NoFields == [k \in {} |-> 0]
NoItem == [kind |-> "none", data |-> NoFields]
Garbage == [kind |-> "garbage", data |-> NoFields]
NullText == [kind |-> "null", data |-> NoFields]
JsonText(d) == [kind |-> "json", data |-> d]

has(d, f) == f \in DOMAIN d

defaultBackend(ready) == IF ready THEN "supabase" ELSE "local"

defaultState(urlRoom, ready) ==
  [points |-> ZeroPoints, history |-> <<>>, theme |-> "dark", bgUrl |-> "",
   room |-> sanitizeRoom(IF getRoomFromURL(urlRoom) # <<>>
                         THEN getRoomFromURL(urlRoom) ELSE Demo),
   backend |-> defaultBackend(ready)]

\* readLocal: a missing item, unparsable text and the text "null" all end in
\* the catch branch; a parsed object gives each field its own fallback.
readLocal(raw, urlRoom, ready) ==
  IF raw.kind # "json" THEN defaultState(urlRoom, ready)
  ELSE LET d == raw.data IN
    [points  |-> IF has(d, "points") THEN d.points ELSE ZeroPoints,
     history |-> IF has(d, "history") THEN Take(d.history, MAX_HISTORY) ELSE <<>>,
     theme   |-> IF has(d, "theme") /\ d.theme = "light" THEN "light" ELSE "dark",
     bgUrl   |-> IF has(d, "bgUrl") THEN d.bgUrl ELSE "",
     room    |-> sanitizeRoom(
                   IF has(d, "room") /\ d.room # <<>> THEN d.room
                   ELSE IF getRoomFromURL(urlRoom) # <<>> THEN getRoomFromURL(urlRoom)
                   ELSE Demo),
     backend |-> IF has(d, "backend") THEN d.backend ELSE defaultBackend(ready)]

writeLocalWithoutHistory(state) ==
  JsonText([points  |-> [k \in DOMAIN state.points |-> jsonNum(state.points[k])],
            theme   |-> state.theme,
            bgUrl   |-> state.bgUrl,
            room    |-> state.room,
            backend |-> state.backend])

\* writeLocal's JSON.stringify(toSave): the text localStorage.setItem is given.
writeLocal(state) ==
  JsonText([points  |-> [k \in DOMAIN state.points |-> jsonNum(state.points[k])],
            history |-> Take(state.history, MAX_HISTORY),
            theme   |-> state.theme,
            bgUrl   |-> state.bgUrl,
            room    |-> state.room,
            backend |-> state.backend])

\* ------------------------------------------------------------------ state
VARIABLES
  supabaseReady, \* the build has both Supabase settings (line 68)
  now,           \* the wall clock, in ms: what new Date() reads
  db,            \* the table games: a set of rows, one per id
  st,            \* st[c]: the component's AppState
  lsError,       \* lsError[c]: the storage error shown in the banner
  net,           \* net[c]: NetStatus
  lastRemote,    \* lastRemote[c]: lastRemoteRef.current (NoCursor: null)
  mounted,       \* mounted[c]: the component's effects have run
  ls,            \* ls[c]: the item stored under LS_KEY
  lsFull,        \* lsFull[c]: localStorage.setItem throws QuotaExceededError
  url,           \* url[c]: the room parameter of the page address
  timers,        \* timers[c]: pending setTimeout callbacks of the upsert effect
  loads,         \* loads[c]: initial-load fetches awaiting their result
  pushes,        \* pushes[c]: upserts awaiting their result
  chan,          \* chan[c]: the room of the subscribed channel (NoRoom: none)
  evq,           \* evq[c]: change events on their way to the channel callback
  obs,           \* obs[c]: what an observer of client c has counted (below)
  last           \* the step just taken: operation, client, argument

vars == <<supabaseReady, now, db, st, lsError, net, lastRemote, mounted, ls,
          lsFull, url, timers, loads, pushes, chan, evq, obs, last>>

NoCursor == 0 - 1
NoRoom == <<>>
QuotaMsg == "QuotaExceededError"

Row(id, points, history, at) ==
  [id |-> id, points |-> points, history |-> history, updated_at |-> at]
NoRow == Row(NoRoom, ZeroPoints, <<>>, NoCursor)

Step(op, c, arg) == [op |-> op, c |-> c, arg |-> arg]

effectiveBackend(s) ==
  IF s.backend = "supabase" /\ ~supabaseReady THEN "local" ELSE s.backend

\* The guard the three remote effects share (lines 169-170, 188, 204).
syncOn(s) == effectiveBackend(s) = "supabase" /\ supabaseReady /\ s.room # <<>>

\* clearTimeout(t) in the upsert effect's cleanup: the pending callback of the
\* previous run of the effect is dropped.
clearTimeoutForgets(ts) == ts
clearTimeout(ts) == {}

\* The dependency lists: [room, effectiveBackend] for the load and the
\* subscription, [points, history, effectiveBackend, room] for the upsert.
\* refs: the handler put new points/history objects into the state.
roomDepsIgnoresBackend(s1, s2, mount) == mount \/ s1.room # s2.room
roomDeps(s1, s2, mount) ==
  mount \/ s1.room # s2.room \/ effectiveBackend(s1) # effectiveBackend(s2)
pushDepsIgnoresRefs(s1, s2, refs, mount) == roomDeps(s1, s2, mount)
pushDepsEveryRender(s1, s2, refs, mount) == TRUE
pushDeps(s1, s2, refs, mount) == refs \/ roomDeps(s1, s2, mount)

\* The storage effect (lines 157-164): writeLocal, then the banner.
lsAfter(c, s2) == IF lsFull[c] THEN ls[c] ELSE writeLocal(s2)
lsErrorAfterSwallows(c) == ""
lsErrorAfter(c) == IF lsFull[c] THEN QuotaMsg ELSE ""

\* The upsert effect (lines 203-214): cleanup, then a new timer.
timersAfter(c, s1, s2, refs, mount) ==
  IF ~pushDeps(s1, s2, refs, mount) THEN timers[c]
  ELSE LET kept == IF mount THEN timers[c] ELSE clearTimeout(timers[c]) IN
       IF syncOn(s2)
       THEN kept \cup {[room |-> s2.room, points |-> s2.points,
                        history |-> s2.history, due |-> now + DEBOUNCE_MS]}
       ELSE kept

\* A render commit of client c: the state becomes s2 and every effect whose
\* dependencies changed runs. netH, evqH and loadsH are the status,
\* the undelivered events and the open fetches the handler itself leaves.
Commit(c, s2, refs, mount, netH, evqH, loadsH) ==
  LET s1 == st[c]
      rd == roomDeps(s1, s2, mount)
  IN  /\ st' = [st EXCEPT ![c] = s2]
      /\ ls' = [ls EXCEPT ![c] = lsAfter(c, s2)]
      /\ lsError' = [lsError EXCEPT ![c] = lsErrorAfter(c)]
      /\ net' = [net EXCEPT ![c] =
                   IF ~rd THEN netH ELSE IF syncOn(s2) THEN "syncing" ELSE "offline"]
      /\ loads' = [loads EXCEPT ![c] =
                   IF rd /\ syncOn(s2)
                   THEN loadsH \cup {[room |-> s2.room, stage |-> "req",
                                      res |-> "pending", row |-> NoRow]}
                   ELSE loadsH]
      /\ chan' = [chan EXCEPT ![c] =
                   IF ~rd THEN @ ELSE IF syncOn(s2) THEN s2.room ELSE NoRoom]
      /\ evq' = [evq EXCEPT ![c] = IF rd THEN <<>> ELSE evqH]
      /\ timers' = [timers EXCEPT ![c] = timersAfter(c, s1, s2, refs, mount)]

\* ------------------------------------------------------------ the reducer
Entry(house, delta) == [house |-> house, delta |-> delta]

\* [entry, ...prev.history].slice(0, MAX_HISTORY) (line 230)
nextHistoryKeepsOldest(entry, history) ==
  IF Len(history) < MAX_HISTORY THEN <<entry>> \o history ELSE history
nextHistoryNoSlice(entry, history) == <<entry>> \o history
nextHistory(entry, history) == Take(<<entry>> \o history, MAX_HISTORY)

\* { ...prev.points, [target]: prev.points[target] + delta } (line 228)
nextPointsDoubles(points, target, delta) ==
  [k \in DOMAIN points \cup {target} |->
     IF k = target THEN jsAdd(jsAdd(pointOf(points, target), delta), delta)
     ELSE points[k]]
nextPoints(points, target, delta) ==
  [k \in DOMAIN points \cup {target} |->
     IF k = target THEN jsAdd(pointOf(points, target), delta) ELSE points[k]]

\* applyDelta's state updater (lines 227-232)
applyDelta(prev, target, delta) ==
  [prev EXCEPT !.points = nextPoints(prev.points, target, delta),
               !.history = nextHistory(Entry(target, delta), prev.history)]

\* resetAll's state updater (line 240)
resetStateKeepsHistory(prev) == [prev EXCEPT !.points = ZeroPoints]
resetState(prev) == [prev EXCEPT !.points = ZeroPoints, !.history = <<>>]

\* The updater of an adopted remote row (lines 178 and 194).
adoptNoSlice(prev, row) ==
  [prev EXCEPT !.points = row.points, !.history = row.history]
adopt(prev, row) ==
  [prev EXCEPT !.points = row.points, !.history = Take(row.history, MAX_HISTORY)]

\* The test of the subscription callback (line 193).
newerTies(cursor, at) == cursor = NoCursor \/ at >= cursor
newer(cursor, at) == cursor = NoCursor \/ at > cursor

\* --------------------------------------------------------------- observer
\* Bookkeeping about a client that the program itself does not keep:
\*   nMut, nReload  local mutations and page reloads made (the bounds' counters)
\*   applied        per house, the deltas applied since points were all zero
\*   tracked        no adoption since then: applied accounts for all of points
\*   burstOpen      a local mutation made with sync on awaits its upsert
\*   burstN         local mutations of the current (or last) burst
\*   burstClean     no remote row was adopted since the burst's last mutation
\*   burstSnap      points and history right after the burst's last mutation
\*   burstAt        the time of the burst's last mutation
\*   netErr         a fetch or an upsert of this client has failed
\*   nBind          room and backend handlers run in a build with Supabase
Snap(s) == [points |-> s.points, history |-> s.history]

ObsStart(s, muts, reloads) ==
  [nMut |-> muts, nReload |-> reloads, applied |-> ZeroPoints,
   tracked |-> s.points = ZeroPoints, burstOpen |-> FALSE, burstN |-> 0,
   burstClean |-> TRUE, burstSnap |-> Snap(s), burstAt |-> 0, netErr |-> FALSE,
   nBind |-> 0]

ObsMutation(o, s2) ==
  [o EXCEPT !.nMut = @ + 1,
            !.burstN = IF o.burstOpen THEN @ + 1 ELSE 1,
            !.burstOpen = syncOn(s2),
            !.burstClean = TRUE,
            !.burstSnap = Snap(s2),
            !.burstAt = now]

ObsAdopt(o) == [o EXCEPT !.tracked = FALSE, !.burstClean = FALSE]

ObsRebind(o, s2) ==
  [o EXCEPT !.burstOpen = @ /\ syncOn(s2),
            !.nBind = IF supabaseReady THEN Min(@ + 1, MaxBind) ELSE @]

\* ------------------------------------------------------------------- Init
\* The state after useState(readLocal()) of every client, before its effects
\* run, for the given stored items, page addresses, remote table, build
\* settings and storage capacity.
InitWith(LsIn, UrlIn, DbIn, ReadyIn, FullIn) ==
  /\ supabaseReady \in ReadyIn
  /\ now = 0
  /\ db \in DbIn
  /\ ls \in LsIn
  /\ url \in UrlIn
  /\ lsFull \in FullIn
  /\ st = [c \in Clients |-> readLocal(ls[c], url[c], supabaseReady)]
  /\ lsError = [c \in Clients |-> ""]
  /\ net = [c \in Clients |-> "offline"]
  /\ lastRemote = [c \in Clients |-> NoCursor]
  /\ mounted = [c \in Clients |-> FALSE]
  /\ timers = [c \in Clients |-> {}]
  /\ loads = [c \in Clients |-> {}]
  /\ pushes = [c \in Clients |-> {}]
  /\ chan = [c \in Clients |-> NoRoom]
  /\ evq = [c \in Clients |-> <<>>]
  /\ obs = [c \in Clients |-> ObsStart(st[c], 0, 0)]
  /\ last = Step("init", "A", 0)

\* ---------------------------------------------------------------- actions
\* First render committed: every effect runs once (lines 157-214).
Mount(c) ==
  /\ ~mounted[c]
  /\ mounted' = [mounted EXCEPT ![c] = TRUE]
  /\ Commit(c, st[c], FALSE, TRUE, net[c], evq[c], loads[c])
  /\ last' = Step("mount", c, 0)
  /\ UNCHANGED <<supabaseReady, now, db, lastRemote, lsFull, url, pushes, obs>>

\* applyDelta(target, delta) from a quick button or onAdd (lines 226-237).
ApplyDelta(c, h, d) ==
  /\ mounted[c]
  /\ obs[c].nMut < MaxMut
  /\ LET s2 == applyDelta(st[c], h, d) IN
       /\ Commit(c, s2, TRUE, FALSE, net[c], evq[c], loads[c])
       /\ obs' = [obs EXCEPT ![c] =
                    [ObsMutation(@, s2) EXCEPT !.applied[h] = @ + d]]
  /\ last' = Step("applyDelta", c, Entry(h, d))
  /\ UNCHANGED <<supabaseReady, now, db, lastRemote, mounted, lsFull, url,
                 pushes>>

\* resetAll (lines 238-241): confirm() answered with `confirmed`.
ResetAll(c, confirmed) ==
  /\ mounted[c]
  /\ obs[c].nMut < MaxMut
  /\ IF confirmed
     THEN LET s2 == resetState(st[c]) IN
          /\ Commit(c, s2, TRUE, FALSE, net[c], evq[c], loads[c])
          /\ obs' = [obs EXCEPT ![c] =
                       [ObsMutation(@, s2) EXCEPT !.applied = ZeroPoints,
                                                  !.tracked = TRUE]]
     ELSE UNCHANGED <<st, ls, lsError, net, loads, chan, evq, timers, obs>>
  /\ last' = Step("resetAll", c, confirmed)
  /\ UNCHANGED <<supabaseReady, now, db, lastRemote, mounted, lsFull, url,
                 pushes>>

\* The theme button (line 295).
ToggleTheme(c) ==
  /\ mounted[c]
  /\ Commit(c, [st[c] EXCEPT !.theme = IF @ = "dark" THEN "light" ELSE "dark"],
            FALSE, FALSE, net[c], evq[c], loads[c])
  /\ last' = Step("theme", c, 0)
  /\ UNCHANGED <<supabaseReady, now, db, lastRemote, mounted, lsFull, url,
                 pushes, obs>>

\* onPickBackground (lines 244-251) with an image that compresses, and
\* removeBackground (lines 252-254), whose button shows while bgUrl is set.
SetBackground(c) ==
  /\ mounted[c]
  /\ Commit(c, [st[c] EXCEPT !.bgUrl = "data:image/jpeg"],
            FALSE, FALSE, net[c], evq[c], loads[c])
  /\ last' = Step("setBackground", c, 0)
  /\ UNCHANGED <<supabaseReady, now, db, lastRemote, mounted, lsFull, url,
                 pushes, obs>>

RemoveBackground(c) ==
  /\ mounted[c]
  /\ st[c].bgUrl # ""
  /\ Commit(c, [st[c] EXCEPT !.bgUrl = ""], FALSE, FALSE, net[c], evq[c], loads[c])
  /\ last' = Step("removeBackground", c, 0)
  /\ UNCHANGED <<supabaseReady, now, db, lastRemote, mounted, lsFull, url,
                 pushes, obs>>

\* The backend buttons (lines 315-316).
SetBackend(c, b) ==
  /\ mounted[c]
  /\ LET s2 == [st[c] EXCEPT !.backend = b] IN
       /\ Commit(c, s2, FALSE, FALSE, net[c], evq[c], loads[c])
       /\ obs' = [obs EXCEPT ![c] = ObsRebind(@, s2)]
  /\ last' = Step("setBackend", c, b)
  /\ UNCHANGED <<supabaseReady, now, db, lastRemote, mounted, lsFull, url,
                 pushes>>

\* The room input's onChange with the text `raw` (line 322).
TypeRoom(c, raw) ==
  /\ mounted[c]
  /\ LET s2 == [st[c] EXCEPT !.room = sanitizeRoom(raw)] IN
       /\ Commit(c, s2, FALSE, FALSE, net[c], evq[c], loads[c])
       /\ obs' = [obs EXCEPT ![c] = ObsRebind(@, s2)]
  /\ last' = Step("typeRoom", c, raw)
  /\ UNCHANGED <<supabaseReady, now, db, lastRemote, mounted, lsFull, url,
                 pushes>>

\* The Verbinden button (line 323): the room again, and setRoomInURL.
Connect(c) ==
  /\ mounted[c]
  /\ LET s2 == [st[c] EXCEPT !.room = sanitizeRoom(st[c].room)] IN
       /\ Commit(c, s2, FALSE, FALSE, net[c], evq[c], loads[c])
       /\ obs' = [obs EXCEPT ![c] = ObsRebind(@, s2)]
  /\ url' = [url EXCEPT ![c] = sanitizeRoom(st[c].room)]
  /\ last' = Step("connect", c, 0)
  /\ UNCHANGED <<supabaseReady, now, db, lastRemote, mounted, lsFull, pushes>>

\* The browser's storage fills up, or is freed.
QuotaChange(c) ==
  /\ lsFull' = [lsFull EXCEPT ![c] = ~@]
  /\ last' = Step("quota", c, 0)
  /\ UNCHANGED <<supabaseReady, now, db, st, lsError, net, lastRemote, mounted,
                 ls, url, timers, loads, pushes, chan, evq, obs>>

\* The page is reloaded: the component is built again from readLocal(); its
\* timers, channel and open continuations are gone, an upsert already sent
\* still reaches the table.
Reload(c) ==
  /\ mounted[c]
  /\ obs[c].nReload < MaxReload
  /\ st' = [st EXCEPT ![c] = readLocal(ls[c], url[c], supabaseReady)]
  /\ obs' = [obs EXCEPT ![c] = ObsStart(st'[c], @.nMut, @.nReload + 1)]
  /\ mounted' = [mounted EXCEPT ![c] = FALSE]
  /\ lsError' = [lsError EXCEPT ![c] = ""]
  /\ net' = [net EXCEPT ![c] = "offline"]
  /\ lastRemote' = [lastRemote EXCEPT ![c] = NoCursor]
  /\ timers' = [timers EXCEPT ![c] = {}]
  /\ loads' = [loads EXCEPT ![c] = {}]
  /\ chan' = [chan EXCEPT ![c] = NoRoom]
  /\ evq' = [evq EXCEPT ![c] = <<>>]
  /\ pushes' = [pushes EXCEPT ![c] =
                  {[p EXCEPT !.live = FALSE] : p \in {q \in @ : q.stage = "sent"}}]
  /\ last' = Step("reload", c, 0)
  /\ UNCHANGED <<supabaseReady, now, db, ls, lsFull, url>>

\* Time passes.
Tick ==
  /\ now < MaxTicks * TickMs
  /\ now' = now + TickMs
  /\ last' = Step("tick", "A", 0)
  /\ UNCHANGED <<supabaseReady, db, st, lsError, net, lastRemote, mounted, ls,
                 lsFull, url, timers, loads, pushes, chan, evq, obs>>

\* What the initial load does with its answer: `!error && data` (line 177).
loadAdoptsAnyAnswer(l) == TRUE
loadAdopts(l) == l.res = "row"

\* The debounce timer's callback up to its await (lines 205-209): the upsert
\* carries the room, points and history of the render that set the timer,
\* stamped with the time of firing.
TimerFire(c, t) ==
  /\ t \in timers[c]
  /\ now >= t.due
  /\ timers' = [timers EXCEPT ![c] = @ \ {t}]
  /\ net' = [net EXCEPT ![c] = "syncing"]
  /\ pushes' = [pushes EXCEPT ![c] =
                  @ \cup {[room |-> t.room, points |-> t.points,
                           history |-> t.history, updated_at |-> now,
                           stage |-> "sent", live |-> TRUE]}]
  /\ obs' = [obs EXCEPT ![c].burstOpen = FALSE]
  /\ last' = Step("timerFire", c, t)
  /\ UNCHANGED <<supabaseReady, now, db, st, lsError, lastRemote, mounted, ls,
                 lsFull, url, loads, chan, evq>>

\* The table takes the upsert (ok), replacing the row of that id and
\* notifying every channel subscribed to the room, or the request fails.
UpsertArrive(c, p, ok) ==
  /\ p \in pushes[c]
  /\ p.stage = "sent"
  /\ LET row == Row(p.room, p.points, p.history, p.updated_at) IN
     IF ok
     THEN /\ db' = {r \in db : r.id # p.room} \cup {row}
          /\ evq' = [d \in Clients |->
                       IF chan[d] = p.room THEN Append(evq[d], row) ELSE evq[d]]
     ELSE UNCHANGED <<db, evq>>
  /\ pushes' = [pushes EXCEPT ![c] =
                  IF p.live
                  THEN (@ \ {p}) \cup {[p EXCEPT !.stage = IF ok THEN "ok" ELSE "err"]}
                  ELSE @ \ {p}]
  /\ last' = Step("upsertArrive", c, ok)
  /\ UNCHANGED <<supabaseReady, now, st, lsError, net, lastRemote, mounted, ls,
                 lsFull, url, timers, loads, chan, obs>>

\* The callback after its await (lines 210-211); the upsert's result is not
\* looked at.
UpsertReturn(c, p) ==
  /\ p \in pushes[c]
  /\ p.stage \in {"ok", "err"}
  /\ pushes' = [pushes EXCEPT ![c] = @ \ {p}]
  /\ lastRemote' = [lastRemote EXCEPT ![c] = now]
  /\ net' = [net EXCEPT ![c] = "online"]
  /\ obs' = [obs EXCEPT ![c].netErr = @ \/ p.stage = "err"]
  /\ last' = Step("upsertReturn", c, p.stage)
  /\ UNCHANGED <<supabaseReady, now, db, st, lsError, mounted, ls, lsFull, url,
                 timers, loads, chan, evq>>

\* The table answers the initial load's select ... single() (lines 172-176):
\* the row of that id, no row (an error of single()), or a failed request.
LoadArrive(c, l, ok) ==
  /\ l \in loads[c]
  /\ l.stage = "req"
  /\ LET found == {r \in db : r.id = l.room}
         answer == IF ~ok THEN [l EXCEPT !.stage = "resp", !.res = "error"]
                   ELSE IF found = {} THEN [l EXCEPT !.stage = "resp", !.res = "none"]
                   ELSE [l EXCEPT !.stage = "resp", !.res = "row",
                                  !.row = CHOOSE r \in found : TRUE]
     IN  loads' = [loads EXCEPT ![c] = (@ \ {l}) \cup {answer}]
  /\ last' = Step("loadArrive", c, ok)
  /\ UNCHANGED <<supabaseReady, now, db, st, lsError, net, lastRemote, mounted,
                 ls, lsFull, url, timers, pushes, chan, evq, obs>>

\* The initial load after its await (lines 177-181).
LoadReturn(c, l) ==
  /\ l \in loads[c]
  /\ l.stage = "resp"
  /\ IF loadAdopts(l)
     THEN /\ Commit(c, adopt(st[c], l.row), TRUE, FALSE, "online", evq[c],
                    loads[c] \ {l})
          /\ lastRemote' = [lastRemote EXCEPT ![c] = l.row.updated_at]
          /\ obs' = [obs EXCEPT ![c] = ObsAdopt(@)]
     ELSE /\ loads' = [loads EXCEPT ![c] = @ \ {l}]
          /\ net' = [net EXCEPT ![c] = "online"]
          /\ obs' = [obs EXCEPT ![c].netErr = @ \/ l.res = "error"]
          /\ UNCHANGED <<st, ls, lsError, chan, evq, timers, lastRemote>>
  /\ last' = Step("loadReturn", c, l.res)
  /\ UNCHANGED <<supabaseReady, now, db, mounted, lsFull, url, pushes>>

\* The subscription callback on the next change event of the channel, which
\* hands them over in the order of the table's changes (lines 191-197).
Deliver(c) ==
  /\ evq[c] # <<>>
  /\ LET e == Head(evq[c]) IN
     /\ IF newer(lastRemote[c], e.updated_at)
        THEN /\ Commit(c, adopt(st[c], e), TRUE, FALSE, net[c], Tail(evq[c]),
                       loads[c])
             /\ lastRemote' = [lastRemote EXCEPT ![c] = e.updated_at]
             /\ obs' = [obs EXCEPT ![c] = ObsAdopt(@)]
        ELSE /\ evq' = [evq EXCEPT ![c] = Tail(@)]
             /\ UNCHANGED <<st, ls, lsError, net, loads, chan, timers,
                            lastRemote, obs>>
     /\ last' = Step("deliver", c, [evt |-> e, cursor |-> lastRemote[c]])
  /\ UNCHANGED <<supabaseReady, now, db, mounted, lsFull, url, pushes>>

\* ------------------------------------------------------ the sync engine
\* One client, A, against the remote table: it mounts with an empty store,
\* the table is empty or holds a row an earlier session left for the default
\* room, requests may fail. The change feed brings back A's own upserts.
Moves == {<<"Gryffindor", 5>>, <<"Slytherin", 0 - 5>>}

SeedRow == Row(Demo, [ZeroPoints EXCEPT !["Ravenclaw"] = 10],
               <<Entry("Ravenclaw", 10)>>, 0)

Init ==
  InitWith({[c \in Clients |-> NoItem]}, {[c \in Clients |-> <<>>]},
           {{}, {SeedRow}}, {TRUE}, {[c \in Clients |-> FALSE]})

Engine(c) ==
  \/ \E t \in timers[c] : TimerFire(c, t)
  \/ \E p \in pushes[c], ok \in BOOLEAN : UpsertArrive(c, p, ok)
  \/ \E p \in pushes[c] : UpsertReturn(c, p)
  \/ \E l \in loads[c], ok \in BOOLEAN : LoadArrive(c, l, ok)
  \/ \E l \in loads[c] : LoadReturn(c, l)
  \/ Deliver(c)

Next ==
  \/ Tick
  \/ Mount("A")
  \/ \E m \in Moves : ApplyDelta("A", m[1], m[2])
  \/ \E ok \in BOOLEAN : ResetAll("A", ok)
  \/ Engine("A")

Spec == Init /\ [][Next]_vars

\* C1: the subscription callback is strict last-writer-wins. A change event
\* stamped T1 that reaches a client whose cursor holds T0 replaces points and
\* history by the event's and moves the cursor to T1 when T1 > T0; when
\* T1 <= T0 it leaves points, history and cursor as they were.
C1_InboundLastWriterWins ==
  [][\A c \in Clients :
       (last'.op = "deliver" /\ last'.c = c /\ lastRemote[c] # NoCursor) =>
         LET e == last'.arg.evt IN
         IF e.updated_at > lastRemote[c]
         THEN /\ st'[c].points = e.points
              /\ st'[c].history = e.history
              /\ lastRemote'[c] = e.updated_at
         ELSE /\ st'[c].points = st[c].points
              /\ st'[c].history = st[c].history
              /\ lastRemote'[c] = lastRemote[c]]_vars

\* A newer event was applied over a cursor that held a timestamp, and the
\* state it replaced was different.
C1_Witness ==
  /\ last.op = "deliver"
  /\ last.arg.cursor # NoCursor
  /\ last.arg.evt.updated_at > last.arg.cursor
  /\ lastRemote[last.c] = last.arg.evt.updated_at
  /\ st[last.c].points = last.arg.evt.points
  /\ st[last.c].points # SeedRow.points

\* The upserts a step of client c sends.
Sent(c) == pushes'[c] \ pushes[c]

\* A local mutation of client c (applyDelta, or resetAll confirmed).
MutationStep(c) ==
  /\ last'.c = c
  /\ \/ last'.op = "applyDelta"
     \/ last'.op = "resetAll" /\ last'.arg = TRUE

\* C2 as stated: the one upsert that a burst of local mutations made with
\* sync on ends in carries the points and history as they were after the
\* burst's last mutation.
C2_BurstUpsertCarriesLastMutation ==
  [][\A c \in Clients :
       (last'.op = "timerFire" /\ last'.c = c /\ obs[c].burstOpen) =>
         /\ Cardinality(Sent(c)) = 1
         /\ \A p \in Sent(c) : Snap(p) = obs[c].burstSnap]_vars

\* C2, amended: with sync on, every local mutation drops the pending timer
\* without sending and sets one new timer, due a full debounce interval
\* later, for the state it produced; so a burst of mutations less than the
\* interval apart ends in exactly one upsert, sent no earlier than the
\* interval after the last of them, and that upsert carries the points and
\* history the client holds when the timer fires: those after the last
\* mutation unless a remote row was adopted in between.
C2_DebounceCoalesces ==
  [][\A c \in Clients :
       /\ (MutationStep(c) /\ syncOn(st'[c])) =>
            /\ timers'[c] = {[room |-> st'[c].room, points |-> st'[c].points,
                              history |-> st'[c].history,
                              due |-> now + DEBOUNCE_MS]}
            /\ Sent(c) = {}
       /\ (last'.op = "timerFire" /\ last'.c = c) =>
            /\ Cardinality(Sent(c)) = 1
            /\ \A p \in Sent(c) :
                 /\ Snap(p) = Snap(st[c])
                 /\ (obs[c].burstOpen /\ obs[c].burstClean) =>
                      Snap(p) = obs[c].burstSnap
            /\ timers'[c] = {}
            /\ obs[c].burstOpen => now >= obs[c].burstAt + DEBOUNCE_MS]_vars

\* A burst of two mutations has just ended in its upsert, which carries the
\* state after the second.
C2_Witness ==
  /\ last.op = "timerFire"
  /\ obs[last.c].burstN >= 2
  /\ obs[last.c].burstClean
  /\ \E p \in pushes[last.c] :
       /\ p.stage = "sent"
       /\ p.updated_at = now
       /\ Snap(p) = obs[last.c].burstSnap
       /\ Len(p.history) >= 2

\* C10: a failed fetch of the initial load and a failed upsert leave the
\* in-memory points and history as they were, both when the request fails
\* and when its continuation runs; and a local mutation made after such a
\* failure is applied and, the storage taking it, persisted.
C10_TransportErrorKeepsState ==
  [][\A c \in Clients :
       /\ ( /\ last'.c = c
            /\ \/ last'.op \in {"loadArrive", "upsertArrive"} /\ last'.arg = FALSE
               \/ last'.op = "loadReturn" /\ last'.arg = "error"
               \/ last'.op = "upsertReturn" /\ last'.arg = "err" )
          => (Snap(st'[c]) = Snap(st[c]) /\ ls'[c] = ls[c])
       /\ (obs[c].netErr /\ last'.op = "applyDelta" /\ last'.c = c) =>
            LET e == last'.arg IN
            /\ pointOf(st'[c].points, e.house)
                 = pointOf(st[c].points, e.house) + e.delta
            /\ \A h \in HOUSES \ {e.house} : st'[c].points[h] = st[c].points[h]
            /\ st'[c].history = <<e>> \o st[c].history
            /\ ~lsFull[c] =>
                 Snap(readLocal(ls'[c], url[c], supabaseReady)) = Snap(st'[c])]_vars

\* After a failed initial load that found the client with points of its own,
\* a local mutation was applied and persisted.
C10_Witness ==
  /\ last.op = "applyDelta"
  /\ obs[last.c].netErr
  /\ obs[last.c].nMut >= 2
  /\ st[last.c].points[last.arg.house] # 0
  /\ Snap(readLocal(ls[last.c], url[last.c], supabaseReady)) = Snap(st[last.c])

\* ------------------------------------------------------- the local store
\* One client, A, in a build without Supabase settings: what it finds stored
\* at startup, its mutations and settings, a storage that fills and frees,
\* and page reloads.
LocalMoves == {<<"Gryffindor", 5>>, <<"Gryffindor", 0 - 5>>, <<"Slytherin", 0 - 5>>}

GoodItem ==
  JsonText([points |-> [ZeroPoints EXCEPT !["Gryffindor"] = 15],
            history |-> <<Entry("Gryffindor", 15)>>, theme |-> "light",
            bgUrl |-> "", room |-> <<"k", "7">>, backend |-> "local"])
\* Items of another shape: points with one key only, points with a key too
\* many, and an object without points whose theme is no theme.
PartialPointsItem ==
  JsonText([points |-> [h \in {"Gryffindor"} |-> 5], history |-> <<>>])
ExtraKeyItem ==
  JsonText([points |-> [h \in HOUSES \cup {"Muggles"} |-> 0], history |-> <<>>])
NoPointsItem ==
  JsonText([history |-> <<Entry("Ravenclaw", 1)>>, theme |-> "sepia"])

LocalItems ==
  {NoItem, Garbage, NullText, GoodItem, PartialPointsItem, ExtraKeyItem,
   NoPointsItem}

InitLocal ==
  InitWith({[c \in Clients |-> IF c = "A" THEN i ELSE NoItem] : i \in LocalItems},
           {[c \in Clients |-> <<>>]}, {{}}, {FALSE},
           {[c \in Clients |-> FALSE]})

NextLocal ==
  \/ Mount("A")
  \/ \E m \in LocalMoves : ApplyDelta("A", m[1], m[2])
  \/ \E ok \in BOOLEAN : ResetAll("A", ok)
  \/ ToggleTheme("A")
  \/ SetBackground("A")
  \/ RemoveBackground("A")
  \/ QuotaChange("A")
  \/ Reload("A")

SpecLocal == InitLocal /\ [][NextLocal]_vars

\* A step of client c that sets the component's state, so that the storage
\* effect runs.
CommitStep(c) ==
  /\ last'.c = c
  /\ \/ last'.op \in {"mount", "applyDelta", "theme", "setBackground",
                      "removeBackground", "setBackend", "typeRoom", "connect"}
     \/ last'.op = "resetAll" /\ last'.arg = TRUE
     \/ last'.op = "loadReturn" /\ last'.arg = "row"
     \/ last'.op = "deliver" /\ newer(lastRemote[c], last'.arg.evt.updated_at)

\* A snapshot as the data model describes it.
ValidSnapshot(s) ==
  /\ DOMAIN s.points = HOUSES
  /\ \A h \in HOUSES : s.points[h] \notin {JsNaN, JsNull, JsUndefined}
  /\ Len(s.history) <= MAX_HISTORY

DefaultSnapshot == [points |-> ZeroPoints, history |-> <<>>]

\* C5: from the all-zero snapshot, with no adoption since, each house's
\* points equal the sum of the deltas applied to that house, and the four
\* points add up to the sum of all applied deltas.
C5_PointsAreSumOfDeltas ==
  \A c \in Clients :
    obs[c].tracked =>
      /\ DOMAIN st[c].points = HOUSES
      /\ \A h \in HOUSES : st[c].points[h] = obs[c].applied[h]
      /\ st[c].points["Gryffindor"] + st[c].points["Slytherin"]
           + st[c].points["Ravenclaw"] + st[c].points["Hufflepuff"]
         = obs[c].applied["Gryffindor"] + obs[c].applied["Slytherin"]
           + obs[c].applied["Ravenclaw"] + obs[c].applied["Hufflepuff"]

\* +5 then -5 for one house: its points are back at 0 and the history has
\* both entries.
C5_Witness ==
  /\ obs["A"].tracked
  /\ obs["A"].nMut = 2
  /\ st["A"].history = <<Entry("Gryffindor", 0 - 5), Entry("Gryffindor", 5)>>
  /\ st["A"].points = ZeroPoints

\* C6: the in-memory points always have exactly the four house keys.
C6_PointsHaveFourKeys == \A c \in Clients : DOMAIN st[c].points = HOUSES

\* C8: after a save that succeeded, a load gives back the points and history
\* of the valid snapshot that was saved; and a load that finds no item, or
\* text that does not parse, gives the default snapshot.
C8_StoreRoundTrip ==
  /\ [](\A c \in Clients :
          (~mounted[c] /\ ls[c].kind \in {"none", "garbage", "null"}) =>
             Snap(st[c]) = DefaultSnapshot)
  /\ [][\A c \in Clients :
          (CommitStep(c) /\ ~lsFull[c] /\ ValidSnapshot(st'[c])) =>
             /\ ls'[c].kind = "json"
             /\ Snap(readLocal(ls'[c], url'[c], supabaseReady)) = Snap(st'[c])]_vars

\* A snapshot with points and history of its own was saved and, after a
\* reload, loaded again.
C8_Witness ==
  /\ last.op = "reload"
  /\ ValidSnapshot(st["A"])
  /\ st["A"].points["Slytherin"] = 0 - 5
  /\ Len(st["A"].history) = 2
  /\ ls["A"].kind = "json"

RoomAlphabet == {"K", "7", " ", "I-dot"}

RECURSIVE Texts(_)
Texts(n) ==
  IF n = 0 THEN {<<>>}
  ELSE Texts(n - 1) \cup {Append(t, ch) : t \in Texts(n - 1), ch \in RoomAlphabet}

Pad(n) == [i \in 1..n |-> "a"]

\* The text of the component's own assertion (line 261).
MiniTestText ==
  <<" ", " ", "K", "L", "a", "s", "s", "e", "7", "A", " ", "!", "!", "!", " ", " ">>

RoomInputs ==
  Texts(MaxLen)
    \cup {Pad(ROOM_MAX - 1 + k) : k \in 0..(MaxOver + 1)}
    \cup {<<"!">> \o Pad(ROOM_MAX), <<"I-dot">> \o Pad(ROOM_MAX - 1),
          <<"!", " ">>, MiniTestText}

StoredRooms == {<<>>, <<"K", " ">>, <<" ">>, Pad(ROOM_MAX + MaxOver)}
UrlRooms == {<<>>, <<"!">>, <<"_", "K">>}

InitRoom ==
  InitWith({[c \in Clients |-> IF c = "A" THEN i ELSE NoItem] :
              i \in {NoItem} \cup {JsonText([room |-> r]) : r \in StoredRooms}},
           {[c \in Clients |-> IF c = "A" THEN u ELSE <<>>] : u \in UrlRooms},
           {{}}, {FALSE}, {[c \in Clients |-> FALSE]})

NextRoom ==
  \/ Mount("A")
  \/ \E raw \in RoomInputs : TypeRoom("A", raw)
  \/ Connect("A")
  \/ Reload("A")

SpecRoom == InitRoom /\ [][NextRoom]_vars

RoomChars == LowerLetters \cup Digits \cup {"_", "-"}

\* Non-empty, at most 64 characters, each of [a-z0-9_-].
RoomOk(r) ==
  /\ r # <<>>
  /\ Len(r) <= ROOM_MAX
  /\ \A i \in 1..Len(r) : r[i] \in RoomChars

\* Lower-cased, the text has no character of [a-z0-9_-].
NothingRemains(s) ==
  LET t == toLowerCase(s) IN \A i \in 1..Len(t) : t[i] \notin RoomChars

\* C7: sanitizeRoom of every text typed is non-empty, at most 64 characters
\* of [a-z0-9_-], "demo" when nothing remains, "klasse7a" for the text of
\* the component's own assertion, and a fixed point of sanitizeRoom; and the
\* active room of every state is such a room.
C7_RoomIsNormalized ==
  /\ \A c \in Clients :
       RoomOk(st[c].room) /\ sanitizeRoom(st[c].room) = st[c].room
  /\ last.op = "typeRoom" =>
       LET r == sanitizeRoom(last.arg) IN
         /\ RoomOk(r)
         /\ sanitizeRoom(r) = r
         /\ NothingRemains(last.arg) => r = Demo
         /\ last.arg = MiniTestText => r = <<"k", "l", "a", "s", "s", "e", "7", "a">>
         /\ st[last.c].room = r

\* A text made only of characters that are not allowed was typed, and the
\* room is "demo".
C7_Witness ==
  /\ last.op = "typeRoom"
  /\ last.arg # <<>>
  /\ NothingRemains(last.arg)
  /\ st["A"].room = Demo

\* --------------------------------------------------------- long histories
\* Client A with sync on, whose stored history and whose room's remote
\* history are about MAX_HISTORY long. Entry i of a history of n entries has
\* delta n - i + 1: position 1, the newest, has the largest.
LongHistory(n) == [i \in 1..n |-> Entry("Hufflepuff", n - i + 1)]

HistLengths == {MAX_HISTORY - 1, MAX_HISTORY, MAX_HISTORY + MaxOver}

LongRow == Row(Demo, ZeroPoints, LongHistory(MAX_HISTORY + MaxOver + 1), 0)

InitHist ==
  InitWith({[c \in Clients |->
               IF c = "A" THEN JsonText([history |-> LongHistory(n)]) ELSE NoItem] :
              n \in HistLengths},
           {[c \in Clients |-> <<>>]}, {{}, {LongRow}}, {TRUE},
           {[c \in Clients |-> FALSE]})

NextHist ==
  \/ Tick
  \/ Mount("A")
  \/ ApplyDelta("A", "Gryffindor", 5)
  \/ \E t \in timers["A"] : TimerFire("A", t)
  \/ \E p \in pushes["A"] : UpsertArrive("A", p, TRUE)
  \/ \E p \in pushes["A"] : UpsertReturn("A", p)
  \/ \E l \in loads["A"] : LoadArrive("A", l, TRUE)
  \/ \E l \in loads["A"] : LoadReturn("A", l)
  \/ Deliver("A")

SpecHist == InitHist /\ [][NextHist]_vars

\* C4: the in-memory history never has more than MAX_HISTORY entries; and
\* an applyDelta puts its entry at the front, keeps the entries before it in
\* their order behind it, and drops from the end what does not fit.
C4_HistoryBounded ==
  /\ [](\A c \in Clients : Len(st[c].history) <= MAX_HISTORY)
  /\ [][\A c \in Clients :
          (last'.c = c /\ last'.op = "applyDelta") =>
            LET old == st[c].history
                new == st'[c].history
            IN  /\ Len(new) = Min(Len(old) + 1, MAX_HISTORY)
                /\ new[1] = Entry(last'.arg.house, last'.arg.delta)
                /\ \A i \in 2..Len(new) : new[i] = old[i - 1]]_vars

\* An applyDelta on a full history: the new entry is at the front, the
\* history is full, and its last entry is the one that was last but one.
C4_Witness ==
  /\ last.op = "applyDelta"
  /\ Len(st["A"].history) = MAX_HISTORY
  /\ st["A"].history[1] = Entry("Gryffindor", 5)
  /\ st["A"].history[2].house = "Hufflepuff"
  /\ st["A"].history[MAX_HISTORY].delta
       = st["A"].history[2].delta - (MAX_HISTORY - 2)
  /\ st["A"].history[MAX_HISTORY].delta > 1

\* -------------------------------------------------------------- two clients
\* Clients A and B after startup, at rest in the default room: both show the
\* room's row, which the last startup upsert stamped DEBOUNCE_MS ago; both
\* cursors are at the time that upsert's callback went on, one tick later.
\* From there each client applies deltas of its own and the engine runs,
\* with no request failing.
PairRow ==
  Row(Demo, SeedRow.points, SeedRow.history, 0 - DEBOUNCE_MS)

PairState ==
  adopt(defaultState(getRoomFromURL(<<>>), TRUE), PairRow)

InitPair ==
  /\ supabaseReady = TRUE
  /\ now = 0
  /\ db = {PairRow}
  /\ st = [c \in Clients |-> PairState]
  /\ ls = [c \in Clients |-> writeLocal(PairState)]
  /\ url = [c \in Clients |-> <<>>]
  /\ lsFull = [c \in Clients |-> FALSE]
  /\ lsError = [c \in Clients |-> ""]
  /\ net = [c \in Clients |-> "online"]
  /\ lastRemote = [c \in Clients |-> 0 - TickMs]
  /\ mounted = [c \in Clients |-> TRUE]
  /\ timers = [c \in Clients |-> {}]
  /\ loads = [c \in Clients |-> {}]
  /\ pushes = [c \in Clients |-> {}]
  /\ chan = [c \in Clients |-> Demo]
  /\ evq = [c \in Clients |-> <<>>]
  /\ obs = [c \in Clients |-> ObsStart(PairState, 0, 0)]
  /\ last = Step("init", "A", 0)

NextPair ==
  \/ Tick
  \/ ApplyDelta("A", "Gryffindor", 5)
  \/ ApplyDelta("B", "Slytherin", 0 - 5)
  \/ \E c \in Clients : \E t \in timers[c] : TimerFire(c, t)
  \/ \E c \in Clients : \E p \in pushes[c] : UpsertArrive(c, p, TRUE)
  \/ \E c \in Clients : \E p \in pushes[c] : UpsertReturn(c, p)
  \/ \E c \in Clients : Deliver(c)

SpecPair == InitPair /\ [][NextPair]_vars

\* Nothing of the engine is left to run: no timer, no upsert, no load, no
\* change event.
AtRest ==
  \A c \in Clients :
    timers[c] = {} /\ pushes[c] = {} /\ loads[c] = {} /\ evq[c] = <<>>

\* Each client has applied one delta, the two less than a debounce window
\* apart: neither upsert had left when the second delta was applied.
SameWindow ==
  /\ \A c \in Clients : obs[c].nMut = 1
  /\ obs["A"].burstAt - obs["B"].burstAt < DEBOUNCE_MS
  /\ obs["B"].burstAt - obs["A"].burstAt < DEBOUNCE_MS

\* C3: after two clients of one room each applied a delta in the same
\* debounce window, the engine comes to rest only with the room's row and
\* both clients holding the same points and history.
C3_TwoClientsConverge ==
  (AtRest /\ SameWindow) =>
    \E r \in db :
      /\ r.id = Demo
      /\ \A c \in Clients : Snap(st[c]) = Snap(r)

\* ------------------------------------------------- status and the cursor
\* C11: when the callback of an upsert that failed, or the initial load
\* whose fetch failed, has gone on, the network status is not "online".
C11_FailureIsNotOnline ==
  /\ (last.op = "upsertReturn" /\ last.arg = "err") => net[last.c] # "online"
  /\ (last.op = "loadReturn" /\ last.arg = "error") => net[last.c] # "online"

\* C12: while an upsert of a client is on its way the client's cursor is
\* the timestamp that upsert carries.
C12_CursorIsStampInFlight ==
  \A c \in Clients :
    \A p \in pushes[c] : (p.live /\ p.stage = "sent") => lastRemote[c] = p.updated_at

\* ---------------------------------------------------------------- rebinding
\* One client, A, after startup, at rest in the default room as in the
\* specification of two clients (B has not been opened), that applies
\* deltas, changes its room and turns remote sync off and on while the
\* engine runs, with no request failing. The table has a row for each of the
\* two rooms. The clock of this specification stops one tick early.
BindTexts == {<<"K">>, <<>>}

OtherRow == Row(<<"k">>, [ZeroPoints EXCEPT !["Hufflepuff"] = 3],
                <<Entry("Hufflepuff", 3)>>, 0)

InitBind ==
  /\ supabaseReady = TRUE
  /\ now = 0
  /\ db = {PairRow, OtherRow}
  /\ st = [c \in Clients |->
             IF c = "A" THEN PairState ELSE readLocal(NoItem, <<>>, TRUE)]
  /\ ls = [c \in Clients |-> IF c = "A" THEN writeLocal(PairState) ELSE NoItem]
  /\ url = [c \in Clients |-> <<>>]
  /\ lsFull = [c \in Clients |-> FALSE]
  /\ lsError = [c \in Clients |-> ""]
  /\ net = [c \in Clients |-> IF c = "A" THEN "online" ELSE "offline"]
  /\ lastRemote = [c \in Clients |-> IF c = "A" THEN 0 - TickMs ELSE NoCursor]
  /\ mounted = [c \in Clients |-> c = "A"]
  /\ timers = [c \in Clients |-> {}]
  /\ loads = [c \in Clients |-> {}]
  /\ pushes = [c \in Clients |-> {}]
  /\ chan = [c \in Clients |-> IF c = "A" THEN Demo ELSE NoRoom]
  /\ evq = [c \in Clients |-> <<>>]
  /\ obs = [c \in Clients |-> ObsStart(st[c], 0, 0)]
  /\ last = Step("init", "A", 0)

NextBind ==
  \/ now < (MaxTicks - 1) * TickMs /\ Tick
  \/ ApplyDelta("A", "Gryffindor", 5)
  \/ obs["A"].nBind < MaxBind /\ \E raw \in BindTexts : TypeRoom("A", raw)
  \/ obs["A"].nBind < MaxBind /\ \E b \in {"local", "supabase"} : SetBackend("A", b)
  \/ \E t \in timers["A"] : TimerFire("A", t)
  \/ \E p \in pushes["A"] : UpsertArrive("A", p, TRUE)
  \/ \E p \in pushes["A"] : UpsertReturn("A", p)
  \/ \E l \in loads["A"] : LoadArrive("A", l, TRUE)
  \/ \E l \in loads["A"] : LoadReturn("A", l)
  \/ Deliver("A")

SpecBind == InitBind /\ [][NextBind]_vars

\* A handler of client c changed the room or the effective backend: the
\* load, subscription and upsert effects run again.
Rebind(c) ==
  /\ last'.c = c
  /\ last'.op \in {"typeRoom", "connect", "setBackend"}
  /\ roomDeps(st[c], st'[c], FALSE)

\* C13: every pending debounce timer and every change event still to be
\* delivered belongs to the room the client is in now, with remote sync on;
\* so the timer that fires sends for the current room, and the event that
\* is delivered is one of the current room.
C13_NothingStaleAfterRebind ==
  /\ \A c \in Clients :
       /\ \A t \in timers[c] : t.room = st[c].room /\ syncOn(st[c])
       /\ \A i \in 1..Len(evq[c]) : evq[c][i].id = st[c].room /\ syncOn(st[c])
  /\ last.op = "timerFire" => last.arg.room = st[last.c].room
  /\ last.op = "deliver" => last.arg.evt.id = st[last.c].room

\* The room was changed while the timer of a delta applied in the old room
\* was pending: no upsert has left, no timer for the old room is there.
C13_Witness ==
  /\ last.op = "typeRoom"
  /\ st["A"].room = <<"k">>
  /\ obs["A"].nBind = 1
  /\ obs["A"].nMut = 1
  /\ obs["A"].burstAt = now
  /\ pushes["A"] = {}
  /\ timers["A"] # {}

\* C14: a change of room, or of the effective backend, discards the cursor.
C14_CursorResetOnRebind ==
  [][\A c \in Clients : Rebind(c) => lastRemote'[c] = NoCursor]_vars

\* C16: while remote sync is disabled the status of a mounted client is
\* "offline".
C16_OfflineWhileDisabled ==
  \A c \in Clients : (mounted[c] /\ ~syncOn(st[c])) => net[c] = "offline"

\* -------------------------------------------------------- the initial load
\* C15: entering a room with sync on issues one fetch for that room and the
\* status is "syncing"; the fetch is answered with the room's row, or with
\* none when the table has none; on a row the client's points become the
\* row's, its history the row's first MAX_HISTORY entries and its cursor the
\* row's timestamp; on none all three stay; either way the status is then
\* "online".
C15_InitialLoad ==
  [][\A c \in Clients :
       /\ (last'.c = c /\ last'.op = "mount" /\ syncOn(st'[c])) =>
            /\ \E l \in loads'[c] :
                 /\ loads'[c] \ loads[c] = {l}
                 /\ l.room = st'[c].room
                 /\ l.stage = "req"
            /\ net'[c] = "syncing"
       /\ (last'.c = c /\ last'.op = "loadArrive") =>
            \E l \in loads'[c] :
              /\ loads'[c] \ loads[c] = {l}
              /\ \/ l.res = "row" /\ l.row \in db /\ l.row.id = l.room
                 \/ l.res = "none" /\ \A r \in db : r.id # l.room
       /\ (last'.c = c /\ last'.op = "loadReturn" /\ last'.arg = "row") =>
            \E l \in loads[c] :
              /\ loads[c] \ loads'[c] = {l}
              /\ st'[c].points = l.row.points
              /\ Len(st'[c].history) = Min(Len(l.row.history), MAX_HISTORY)
              /\ \A i \in 1..Len(st'[c].history) :
                   st'[c].history[i] = l.row.history[i]
              /\ lastRemote'[c] = l.row.updated_at
              /\ net'[c] = "online"
       /\ (last'.c = c /\ last'.op = "loadReturn" /\ last'.arg = "none") =>
            /\ Snap(st'[c]) = Snap(st[c])
            /\ lastRemote'[c] = lastRemote[c]
            /\ net'[c] = "online"]_vars

\* The load found a row whose history was too long: the client holds its
\* first MAX_HISTORY entries and the row's timestamp.
C15_Witness ==
  /\ last.op = "loadReturn"
  /\ last.arg = "row"
  /\ Len(st["A"].history) = MAX_HISTORY
  /\ st["A"].history[1] = LongRow.history[1]
  /\ lastRemote["A"] = LongRow.updated_at
  /\ net["A"] = "online"

\* ------------------------------------------------------ the page address
\* C17: a component built from a page address with a room parameter is in
\* that room, normalized, whatever the stored item holds; and after
\* Verbinden the page address carries the active room.
C17_UrlGivesRoom ==
  /\ \A c \in Clients :
       (~mounted[c] /\ url[c] # <<>>) => st[c].room = sanitizeRoom(url[c])
  /\ last.op = "connect" => url[last.c] = st[last.c].room

\* ------------------------------------------------------ frames of handlers
\* theme, background, room and backend of a state.
Settings(s) ==
  [theme |-> s.theme, bgUrl |-> s.bgUrl, room |-> s.room, backend |-> s.backend]

\* C18: applyDelta(target, delta) adds delta to the target's points, leaves
\* the other houses' points as they are, puts one entry with that house and
\* delta in front of the history, and leaves the settings and the cursor
\* alone.
C18_ApplyDeltaFrame ==
  [][\A c \in Clients :
       (last'.c = c /\ last'.op = "applyDelta") =>
         LET h == last'.arg.house
             d == last'.arg.delta
         IN  /\ pointOf(st'[c].points, h) = pointOf(st[c].points, h) + d
             /\ \A g \in (HOUSES \cup DOMAIN st[c].points) \ {h} :
                  pointOf(st'[c].points, g) = pointOf(st[c].points, g)
             /\ st'[c].history[1] = Entry(h, d)
             /\ Len(st'[c].history) = Min(Len(st[c].history) + 1, MAX_HISTORY)
             /\ \A i \in 2..Len(st'[c].history) :
                  st'[c].history[i] = st[c].history[i - 1]
             /\ Settings(st'[c]) = Settings(st[c])
             /\ lastRemote'[c] = lastRemote[c]]_vars

\* C19: resetAll confirmed puts every house at 0 and empties the history,
\* leaves the settings alone and, with sync on, leaves one pending timer,
\* for the emptied snapshot, due a debounce interval later; resetAll not
\* confirmed changes nothing of the client and sets no timer.
C19_ResetAllFrame ==
  [][\A c \in Clients :
       /\ (last'.c = c /\ last'.op = "resetAll" /\ last'.arg = TRUE) =>
            /\ st'[c].points = ZeroPoints
            /\ st'[c].history = <<>>
            /\ Settings(st'[c]) = Settings(st[c])
            /\ syncOn(st[c]) =>
                 timers'[c] = {[room |-> st[c].room, points |-> ZeroPoints,
                                history |-> <<>>, due |-> now + DEBOUNCE_MS]}
            /\ ~syncOn(st[c]) => timers'[c] = {}
       /\ (last'.c = c /\ last'.op = "resetAll" /\ last'.arg = FALSE) =>
            /\ st'[c] = st[c]
            /\ timers'[c] = timers[c]
            /\ pushes'[c] = pushes[c]
            /\ ls'[c] = ls[c]
            /\ lastRemote'[c] = lastRemote[c]]_vars

\* After a delta of its own had reached the table, the client was reset:
\* all points 0, no history, the timer for the emptied snapshot pending.
C19_Witness ==
  /\ last.op = "resetAll"
  /\ last.arg = TRUE
  /\ obs["A"].nMut = 2
  /\ \E r \in db : r.points["Gryffindor"] = 5
  /\ st["A"].points = ZeroPoints
  /\ st["A"].history = <<>>
  /\ \E t \in timers["A"] : t.points = ZeroPoints /\ t.history = <<>>

\* ------------------------------------------------------ theme and background
\* One client, A, with sync on, that toggles the theme and sets and clears
\* the background while the engine runs, with no request failing.
NextMeta ==
  \/ Tick
  \/ Mount("A")
  \/ ApplyDelta("A", "Gryffindor", 5)
  \/ ToggleTheme("A")
  \/ SetBackground("A")
  \/ RemoveBackground("A")
  \/ \E t \in timers["A"] : TimerFire("A", t)
  \/ \E p \in pushes["A"] : UpsertArrive("A", p, TRUE)
  \/ \E p \in pushes["A"] : UpsertReturn("A", p)
  \/ \E l \in loads["A"] : LoadArrive("A", l, TRUE)
  \/ \E l \in loads["A"] : LoadReturn("A", l)
  \/ Deliver("A")

SpecMeta == Init /\ [][NextMeta]_vars

\* C20: a theme toggle and a background set or cleared leave points,
\* history and cursor alone, leave the pending timers and the upserts on
\* their way as they are, and store the new theme and background locally;
\* and no upsert, and no row of the table, has a theme or a background.
C20_MetaIsLocalOnly ==
  /\ [](\A c \in Clients :
          /\ \A p \in pushes[c] :
               DOMAIN p = {"room", "points", "history", "updated_at", "stage", "live"}
          /\ \A r \in db : DOMAIN r = {"id", "points", "history", "updated_at"})
  /\ [][\A c \in Clients :
          (last'.c = c /\ last'.op \in {"theme", "setBackground", "removeBackground"}) =>
            /\ Snap(st'[c]) = Snap(st[c])
            /\ lastRemote'[c] = lastRemote[c]
            /\ timers'[c] = timers[c]
            /\ pushes'[c] = pushes[c]
            /\ db' = db
            /\ ~lsFull[c] =>
                 /\ ls'[c].kind = "json"
                 /\ ls'[c].data.theme = st'[c].theme
                 /\ ls'[c].data.bgUrl = st'[c].bgUrl]_vars

\* The theme was toggled while the timer of a delta was pending: the timer
\* is the one the delta set, and the stored item has the new theme.
C20_Witness ==
  /\ last.op = "theme"
  /\ obs["A"].nMut = 1
  /\ st["A"].theme = "light"
  /\ ls["A"].data.theme = "light"
  /\ \E t \in timers["A"] :
       /\ t.due = obs["A"].burstAt + DEBOUNCE_MS
       /\ t.due < now + DEBOUNCE_MS
       /\ t.points = st["A"].points

\* ------------------------------------------------------- echoes and races
\* C21: a client that has made no local mutation has no debounce timer
\* pending and no upsert on its way: adopting a row or an event sets none.
C21_OnlyMutationsPush ==
  \A c \in Clients :
    obs[c].nMut = 0 => (timers[c] = {} /\ pushes[c] = {})

\* C22: the client holds the snapshot its own last mutation gave, and the
\* event delivered carries an upsert stamped no later than that mutation, so
\* one sent before it: the delivery leaves points and history as they are.
C22_OwnEchoKeepsMutation ==
  [][\A c \in Clients :
       (/\ last'.c = c
        /\ last'.op = "deliver"
        /\ obs[c].nMut >= 1
        /\ obs[c].burstClean
        /\ Snap(st[c]) = obs[c].burstSnap
        /\ last'.arg.evt.updated_at <= obs[c].burstAt)
       => Snap(st'[c]) = Snap(st[c])]_vars

\* C23: the answer of an initial load that is for another room than the
\* client's, or comes while sync is off, or carries a row older than the
\* client's cursor, changes neither points and history nor the cursor.
C23_LateLoadIsIgnored ==
  [][\A c \in Clients :
       (last'.c = c /\ last'.op = "loadReturn" /\ last'.arg = "row") =>
         \A l \in loads[c] \ loads'[c] :
           (\/ l.room # st[c].room
            \/ ~syncOn(st[c])
            \/ lastRemote[c] # NoCursor /\ l.row.updated_at < lastRemote[c])
           => /\ Snap(st'[c]) = Snap(st[c])
              /\ lastRemote'[c] = lastRemote[c]]_vars

\* C24: no upsert of a client that has made no mutation is on its way to a
\* room whose row holds other points or history while that client's initial
\* load for the room is still open.
C24_NoPushBeforeLoad ==
  \A c \in Clients :
    \A p \in pushes[c] :
      ~(/\ p.live
        /\ p.stage = "sent"
        /\ obs[c].nMut = 0
        /\ \E l \in loads[c] : l.room = p.room
        /\ \E r \in db : r.id = p.room /\ Snap(r) # Snap(p))

=============================================================================
